---- MODULE Spec2Model ----
(***************************************************************************)
(* A model of the Cycles polygon mesh (intern/cycles/scene/mesh.cpp):      *)
(* incremental construction, subdivision face bookkeeping, motion-step     *)
(* interpolation, bounds, vertex normals and shader packing.               *)
(***************************************************************************)
EXTENDS Integers, Sequences, FiniteSets, TLC

(***************************************************************************)
(* Bounds of the model.                                                    *)
(***************************************************************************)
MaxVerts == 1
MaxTris == 1
MaxSubdFaces == 1
MaxCreases == 1
MaxReserve == 1
MaxSubdSeqFaces == 3
MaxTriSeq == 3
MaxCorners == 5
MaxMotionVerts == 3
MaxMotionSteps == 5
TimeDen == 4
MaxBoundsVerts == 2
MaxBoundsSteps == 3
MaxNormalsVerts == 3
MaxNormalsTris == 2
MaxPackTris == 2
MaxUsedShaders == 1
MaxShaderId == 1
MaxBlurVerts == 2

(***************************************************************************)
(* Floats.  A float is either a finite number (held exactly, as an        *)
(* integer) or a non-finite value (NaN or an infinity).  Every arithmetic  *)
(* operation with a non-finite operand gives a non-finite result, and no   *)
(* comparison with NaN is true.                                            *)
(***************************************************************************)
F(x) == [fin |-> TRUE, val |-> x]
NonFinite == [fin |-> FALSE, val |-> 0]
isfinite_safe(a) == a.fin
FAdd(a, b) == IF a.fin /\ b.fin THEN F(a.val + b.val) ELSE NonFinite
FSub(a, b) == IF a.fin /\ b.fin THEN F(a.val - b.val) ELSE NonFinite
FMul(a, b) == IF a.fin /\ b.fin THEN F(a.val * b.val) ELSE NonFinite
FNeg(a) == IF a.fin THEN F(0 - a.val) ELSE NonFinite

make_float3(x, y, z) == <<F(x), F(y), F(z)>>
zero_float3 == make_float3(0, 0, 0)
isfinite3(p) == p[1].fin /\ p[2].fin /\ p[3].fin
Add3(a, b) == <<FAdd(a[1], b[1]), FAdd(a[2], b[2]), FAdd(a[3], b[3])>>
Sub3(a, b) == <<FSub(a[1], b[1]), FSub(a[2], b[2]), FSub(a[3], b[3])>>
Scale3(s, a) == <<FMul(s, a[1]), FMul(s, a[2]), FMul(s, a[3])>>
Neg3(a) == <<FNeg(a[1]), FNeg(a[2]), FNeg(a[3])>>

(***************************************************************************)
(* The resizable array (util/array.h) is a sequence.  Its capacity is      *)
(* storage, not content: reserve() changes no element and no size, and a   *)
(* push_back appends, growing the storage when it must.  The change tags   *)
(* (tag_*_modified) belong to the Node base class and are not part of the  *)
(* mesh data modelled here.                                                *)
(***************************************************************************)
\* array::reserve: the size and the elements stay.
array_reserve(a, n) == a

\* array::resize: the logical size becomes n, new slots hold zero.
array_resize(a, n, zero) == [i \in 1..n |-> IF i <= Len(a) THEN a[i] ELSE zero]

(***************************************************************************)
(* Attribute stores (scene/attribute.h): per standard key an optional      *)
(* buffer of float3.                                                       *)
(***************************************************************************)
ATTR_STD_VERTEX_NORMAL == "ATTR_STD_VERTEX_NORMAL"
ATTR_STD_MOTION_VERTEX_POSITION == "ATTR_STD_MOTION_VERTEX_POSITION"
ATTR_STD_MOTION_VERTEX_NORMAL == "ATTR_STD_MOTION_VERTEX_NORMAL"
AttrKeys == {ATTR_STD_VERTEX_NORMAL, ATTR_STD_MOTION_VERTEX_POSITION,
             ATTR_STD_MOTION_VERTEX_NORMAL}
NoAttribute == [present |-> FALSE, data |-> <<>>]
Attribute(buf) == [present |-> TRUE, data |-> buf]
EmptyAttributeSet == [k \in AttrKeys |-> NoAttribute]

\* AttributeSet::find
attr_find(attrs, key) == attrs[key].present

\* The number of float3 elements of the attribute `key` of a mesh.
attr_element_count(key, numverts, steps) ==
  IF key = ATTR_STD_VERTEX_NORMAL THEN numverts ELSE numverts * (steps - 1)

\* AttributeSet::resize(reserve_only): every present buffer follows the
\* geometry's size, unless only capacity is asked for.
attr_set_resize(attrs, numverts, steps, reserve_only) ==
  IF reserve_only THEN attrs
  ELSE [k \in AttrKeys |->
          IF attrs[k].present
          THEN Attribute(array_resize(attrs[k].data,
                                      attr_element_count(k, numverts, steps),
                                      zero_float3))
          ELSE NoAttribute]

\* AttributeSet::add: the existing attribute, or a new zero-filled buffer of
\* the attribute's element count.
attr_set_add(attrs, key, numverts, steps) ==
  IF attrs[key].present THEN attrs
  ELSE [attrs EXCEPT ![key] =
          Attribute([i \in 1..attr_element_count(key, numverts, steps) |-> zero_float3])]

SUBDIVISION_NONE == "SUBDIVISION_NONE"
SUBDIVISION_LINEAR == "SUBDIVISION_LINEAR"
SUBDIVISION_CATMULL_CLARK == "SUBDIVISION_CATMULL_CLARK"
SubdivisionTypes == {SUBDIVISION_NONE, SUBDIVISION_LINEAR, SUBDIVISION_CATMULL_CLARK}

(***************************************************************************)
(* The state of one Mesh.                                                  *)
(***************************************************************************)
VARIABLES
  verts, triangles, shader, smooth,
  subd_start_corner, subd_num_corners, subd_shader, subd_smooth,
  subd_ptex_offset, subd_face_corners,
  subd_creases_edge, subd_creases_weight,
  subd_vert_creases, subd_vert_creases_weight,
  num_subd_faces, subdivision_type,
  attributes, subd_attributes,
  used_shaders, use_motion_blur, motion_steps, transform_negative_scaled,
  bounds, tri_shader, shader_ids, motion_call, r_verts, fetched,
  r_has_motion_blur,
  last_op

tri_vars == <<triangles, shader, smooth>>
subd_vars == <<subd_start_corner, subd_num_corners, subd_shader, subd_smooth,
               subd_ptex_offset, subd_face_corners>>
crease_edge_vars == <<subd_creases_edge, subd_creases_weight>>
crease_vert_vars == <<subd_vert_creases, subd_vert_creases_weight>>
attr_vars == <<attributes, subd_attributes>>
geom_vars == <<use_motion_blur, motion_steps, transform_negative_scaled>>
out_vars == <<bounds, tri_shader, shader_ids, motion_call, r_verts, fetched,
             r_has_motion_blur>>
vars == <<verts, tri_vars, subd_vars, crease_edge_vars, crease_vert_vars,
          num_subd_faces, subdivision_type, attr_vars, used_shaders, geom_vars,
          out_vars, last_op>>

(***************************************************************************)
(* BoundBox (util/boundbox.h).  The empty box (min = FLT_MAX,              *)
(* max = -FLT_MAX) is held as a flag: growing it by a point makes that     *)
(* point both corners.                                                     *)
(***************************************************************************)
BoundBox_empty == [empty |-> TRUE, min |-> zero_float3, max |-> zero_float3]

\* min and max of two floats; a non-finite operand spoils the result.
FMin(a, b) == IF a.fin /\ b.fin THEN (IF a.val < b.val THEN a ELSE b) ELSE NonFinite
FMax(a, b) == IF a.fin /\ b.fin THEN (IF a.val > b.val THEN a ELSE b) ELSE NonFinite

\* BoundBox::grow
BoundBox_grow(box, pt) ==
  IF box.empty THEN [empty |-> FALSE, min |-> pt, max |-> pt]
  ELSE [empty |-> FALSE,
        min |-> [c \in 1..3 |-> FMin(box.min[c], pt[c])],
        max |-> [c \in 1..3 |-> FMax(box.max[c], pt[c])]]

\* BoundBox::grow_safe: a point with a non-finite coordinate is skipped.
BoundBox_grow_safe(box, pt) ==
  IF isfinite3(pt) THEN BoundBox_grow(box, pt) ELSE box

\* BoundBox::valid: min <= max in every component, all of them finite.
BoundBox_valid(box) ==
  /\ ~box.empty
  /\ \A c \in 1..3 : box.min[c].fin /\ box.max[c].fin /\ box.min[c].val <= box.max[c].val

\* Mesh::Mesh(): every array empty, the counters zero, no subdivision.
EmptyMesh ==
  /\ verts = <<>> /\ triangles = <<>> /\ shader = <<>> /\ smooth = <<>>
  /\ subd_start_corner = <<>> /\ subd_num_corners = <<>>
  /\ subd_shader = <<>> /\ subd_smooth = <<>>
  /\ subd_ptex_offset = <<>> /\ subd_face_corners = <<>>
  /\ subd_creases_edge = <<>> /\ subd_creases_weight = <<>>
  /\ subd_vert_creases = <<>> /\ subd_vert_creases_weight = <<>>
  /\ num_subd_faces = 0
  /\ subdivision_type = SUBDIVISION_NONE
  /\ attributes = EmptyAttributeSet
  /\ subd_attributes = EmptyAttributeSet

\* The context a fresh mesh lives in, and the outputs not yet produced.
DefaultContext ==
  /\ used_shaders = <<>>
  /\ use_motion_blur = FALSE
  /\ motion_steps = 3
  /\ transform_negative_scaled = FALSE
  /\ bounds = BoundBox_empty
  /\ tri_shader = <<>>
  /\ shader_ids = <<>>
  /\ motion_call = <<>>
  /\ r_verts = <<>>
  /\ fetched = <<>>
  /\ r_has_motion_blur = FALSE

Init == EmptyMesh /\ DefaultContext /\ last_op = "Mesh"

(***************************************************************************)
(* Incremental construction.                                               *)
(***************************************************************************)
\* Mesh::resize_mesh
resize_mesh(numverts, numtris) ==
  /\ verts' = array_resize(verts, numverts, zero_float3)
  /\ triangles' = array_resize(triangles, numtris * 3, 0)
  /\ shader' = array_resize(shader, numtris, 0)
  /\ smooth' = array_resize(smooth, numtris, FALSE)
  /\ attributes' = attr_set_resize(attributes, numverts, motion_steps, FALSE)
  /\ last_op' = "resize_mesh"
  /\ UNCHANGED <<subd_vars, crease_edge_vars, crease_vert_vars, num_subd_faces,
                 subdivision_type, subd_attributes, used_shaders, geom_vars, out_vars>>

\* reserve_mesh setting the sizes, as resize_mesh does.
reserve_mesh_resizing(numverts, numtris) ==
  /\ verts' = array_resize(verts, numverts, zero_float3)
  /\ triangles' = array_resize(triangles, numtris * 3, 0)
  /\ shader' = array_resize(shader, numtris, 0)
  /\ smooth' = array_resize(smooth, numtris, FALSE)
  /\ attributes' = attr_set_resize(attributes, numverts, motion_steps, FALSE)
  /\ last_op' = "reserve_mesh"
  /\ UNCHANGED <<subd_vars, crease_edge_vars, crease_vert_vars, num_subd_faces,
                 subdivision_type, subd_attributes, used_shaders, geom_vars, out_vars>>

\* Mesh::reserve_mesh
reserve_mesh(numverts, numtris) ==
  /\ verts' = array_reserve(verts, numverts)
  /\ triangles' = array_reserve(triangles, numtris * 3)
  /\ shader' = array_reserve(shader, numtris)
  /\ smooth' = array_reserve(smooth, numtris)
  /\ attributes' = attr_set_resize(attributes, Len(verts), motion_steps, TRUE)
  /\ last_op' = "reserve_mesh"
  /\ UNCHANGED <<subd_vars, crease_edge_vars, crease_vert_vars,
                 num_subd_faces, subdivision_type, subd_attributes, used_shaders,
                 geom_vars, out_vars>>

\* Mesh::resize_subd_faces
resize_subd_faces(numfaces, numcorners) ==
  /\ subd_start_corner' = array_resize(subd_start_corner, numfaces, 0)
  /\ subd_num_corners' = array_resize(subd_num_corners, numfaces, 0)
  /\ subd_shader' = array_resize(subd_shader, numfaces, 0)
  /\ subd_smooth' = array_resize(subd_smooth, numfaces, FALSE)
  /\ subd_ptex_offset' = array_resize(subd_ptex_offset, numfaces, 0)
  /\ subd_face_corners' = array_resize(subd_face_corners, numcorners, 0)
  /\ num_subd_faces' = numfaces
  /\ subd_attributes' = attr_set_resize(subd_attributes, Len(verts), motion_steps, FALSE)
  /\ last_op' = "resize_subd_faces"
  /\ UNCHANGED <<verts, tri_vars, crease_edge_vars, crease_vert_vars,
                 subdivision_type, attributes, used_shaders, geom_vars, out_vars>>

\* Mesh::reserve_subd_faces
reserve_subd_faces(numfaces, numcorners) ==
  /\ subd_start_corner' = array_reserve(subd_start_corner, numfaces)
  /\ subd_num_corners' = array_reserve(subd_num_corners, numfaces)
  /\ subd_shader' = array_reserve(subd_shader, numfaces)
  /\ subd_smooth' = array_reserve(subd_smooth, numfaces)
  /\ subd_ptex_offset' = array_reserve(subd_ptex_offset, numfaces)
  /\ subd_face_corners' = array_reserve(subd_face_corners, numcorners)
  /\ num_subd_faces' = numfaces
  /\ subd_attributes' = attr_set_resize(subd_attributes, Len(verts), motion_steps, TRUE)
  /\ last_op' = "reserve_subd_faces"
  /\ UNCHANGED <<verts, tri_vars, crease_edge_vars, crease_vert_vars,
                 subdivision_type, attributes, used_shaders, geom_vars, out_vars>>

\* Mesh::reserve_subd_creases
reserve_subd_creases(num_creases) ==
  /\ subd_creases_edge' = array_reserve(subd_creases_edge, num_creases * 2)
  /\ subd_creases_weight' = array_reserve(subd_creases_weight, num_creases)
  /\ last_op' = "reserve_subd_creases"
  /\ UNCHANGED <<verts, tri_vars, subd_vars, crease_vert_vars,
                 num_subd_faces, subdivision_type, attr_vars, used_shaders,
                 geom_vars, out_vars>>

\* Geometry::clear(preserve_shaders), as far as the mesh sees it: the shader
\* list survives only when asked for.
Geometry_clear(preserve_shaders) ==
  used_shaders' = IF preserve_shaders THEN used_shaders ELSE <<>>

\* AttributeSet::clear
attr_set_clear(attrs) == EmptyAttributeSet

\* Mesh::clear(preserve_shaders, preserve_voxel_data), with the
\* clear_non_sockets() it ends with.
clear(preserve_shaders, preserve_voxel_data) ==
  /\ Geometry_clear(preserve_shaders)
  /\ verts' = <<>>
  /\ triangles' = <<>>
  /\ shader' = <<>>
  /\ smooth' = <<>>
  /\ subd_start_corner' = <<>>
  /\ subd_num_corners' = <<>>
  /\ subd_shader' = <<>>
  /\ subd_smooth' = <<>>
  /\ subd_ptex_offset' = <<>>
  /\ subd_face_corners' = <<>>
  /\ subd_creases_edge' = <<>>
  /\ subd_creases_weight' = <<>>
  /\ subd_attributes' = attr_set_clear(subd_attributes)
  /\ attributes' = attr_set_clear(attributes)
  /\ subdivision_type' = SUBDIVISION_NONE
  /\ num_subd_faces' = 0
  /\ last_op' = "clear"
  /\ UNCHANGED <<crease_vert_vars, geom_vars, out_vars>>

\* Mesh::add_vertex
add_vertex(P) ==
  /\ verts' = Append(verts, P)
  /\ last_op' = "add_vertex"
  /\ UNCHANGED <<tri_vars, subd_vars, crease_edge_vars, crease_vert_vars,
                 num_subd_faces, subdivision_type, attr_vars, used_shaders,
                 geom_vars, out_vars>>

\* Mesh::add_vertex_slow
add_vertex_slow(P) ==
  /\ verts' = Append(verts, P)
  /\ last_op' = "add_vertex_slow"
  /\ UNCHANGED <<tri_vars, subd_vars, crease_edge_vars, crease_vert_vars,
                 num_subd_faces, subdivision_type, attr_vars, used_shaders,
                 geom_vars, out_vars>>

\* add_triangle dropping the third index of the triangle.
add_triangle_two_indices(v0, v1, v2, shader_, smooth_) ==
  /\ triangles' = Append(Append(triangles, v0), v1)
  /\ shader' = Append(shader, shader_)
  /\ smooth' = Append(smooth, smooth_)
  /\ last_op' = "add_triangle"
  /\ UNCHANGED <<verts, subd_vars, crease_edge_vars, crease_vert_vars,
                 num_subd_faces, subdivision_type, attr_vars, used_shaders,
                 geom_vars, out_vars>>

\* Mesh::add_triangle
add_triangle(v0, v1, v2, shader_, smooth_) ==
  /\ triangles' = Append(Append(Append(triangles, v0), v1), v2)
  /\ shader' = Append(shader, shader_)
  /\ smooth' = Append(smooth, smooth_)
  /\ last_op' = "add_triangle"
  /\ UNCHANGED <<verts, subd_vars, crease_edge_vars, crease_vert_vars,
                 num_subd_faces, subdivision_type, attr_vars, used_shaders,
                 geom_vars, out_vars>>

\* SubdFace::num_ptex_faces (scene/mesh.h)
num_ptex_faces(num_corners) == IF num_corners = 4 THEN 1 ELSE num_corners

\* Mesh::get_subd_face
get_subd_face(index) ==
  [shader |-> subd_shader[index + 1],
   num_corners |-> subd_num_corners[index + 1],
   smooth |-> subd_smooth[index + 1],
   ptex_offset |-> subd_ptex_offset[index + 1],
   start_corner |-> subd_start_corner[index + 1]]

\* The ptex offset taken from the previous face's count alone.
next_ptex_offset_not_cumulative ==
  IF Len(subd_shader) # 0
  THEN LET s == get_subd_face(Len(subd_shader) - 1)
       IN num_ptex_faces(s.num_corners)
  ELSE 0

\* The ptex offset add_subd_face gives the face it appends.
next_ptex_offset ==
  IF Len(subd_shader) # 0
  THEN LET s == get_subd_face(Len(subd_shader) - 1)
       IN s.ptex_offset + num_ptex_faces(s.num_corners)
  ELSE 0

\* The start corner taken after the new face's corners were appended.
next_start_corner_after_push(corners) == Len(subd_face_corners) + Len(corners)

\* The corner index add_subd_face stores as the new face's start_corner.
next_start_corner(corners) == Len(subd_face_corners)

\* Mesh::add_subd_face; num_corners is the length of corners.
add_subd_face(corners, shader_, smooth_) ==
  /\ subd_face_corners' = subd_face_corners \o corners
  /\ subd_start_corner' = Append(subd_start_corner, next_start_corner(corners))
  /\ subd_num_corners' = Append(subd_num_corners, Len(corners))
  /\ subd_shader' = Append(subd_shader, shader_)
  /\ subd_smooth' = Append(subd_smooth, smooth_)
  /\ subd_ptex_offset' = Append(subd_ptex_offset, next_ptex_offset)
  /\ last_op' = "add_subd_face"
  /\ UNCHANGED <<verts, tri_vars, crease_edge_vars, crease_vert_vars,
                 num_subd_faces, subdivision_type, attr_vars, used_shaders,
                 geom_vars, out_vars>>

\* Mesh::add_edge_crease
add_edge_crease(v0, v1, weight) ==
  /\ subd_creases_edge' = Append(Append(subd_creases_edge, v0), v1)
  /\ subd_creases_weight' = Append(subd_creases_weight, weight)
  /\ last_op' = "add_edge_crease"
  /\ UNCHANGED <<verts, tri_vars, subd_vars, crease_vert_vars, num_subd_faces,
                 subdivision_type, attr_vars, used_shaders, geom_vars, out_vars>>

\* Mesh::add_vertex_crease
add_vertex_crease(v, weight) ==
  /\ subd_vert_creases' = Append(subd_vert_creases, v)
  /\ subd_vert_creases_weight' = Append(subd_vert_creases_weight, weight)
  /\ last_op' = "add_vertex_crease"
  /\ UNCHANGED <<verts, tri_vars, subd_vars, crease_edge_vars, num_subd_faces,
                 subdivision_type, attr_vars, used_shaders, geom_vars, out_vars>>

\* attributes.add(key), called by the scene builder.
attributes_add(key) ==
  /\ attributes' = attr_set_add(attributes, key, Len(verts), motion_steps)
  /\ last_op' = "attributes.add"
  /\ UNCHANGED <<verts, tri_vars, subd_vars, crease_edge_vars, crease_vert_vars,
                 num_subd_faces, subdivision_type, subd_attributes, used_shaders,
                 geom_vars, out_vars>>

\* subd_attributes.add(key), called by the scene builder.
subd_attributes_add(key) ==
  /\ subd_attributes' = attr_set_add(subd_attributes, key, Len(verts), motion_steps)
  /\ last_op' = "subd_attributes.add"
  /\ UNCHANGED <<verts, tri_vars, subd_vars, crease_edge_vars, crease_vert_vars,
                 num_subd_faces, subdivision_type, attributes, used_shaders,
                 geom_vars, out_vars>>

(***************************************************************************)
(* Construction: any interleaving of the building operations and clear.    *)
(* The claims checked here are about sizes, so the appended values are     *)
(* the ones a resize fills in.                                             *)
(***************************************************************************)
BuildPoint == zero_float3

Build_resize_mesh ==
  \E nv \in 0..MaxVerts, nt \in 0..MaxTris : resize_mesh(nv, nt)
Build_reserve_mesh ==
  \E n \in 0..MaxReserve : reserve_mesh(n, n)
Build_resize_subd_faces ==
  \E nf \in 0..MaxSubdFaces : resize_subd_faces(nf, 3 * nf)
Build_reserve_subd_faces ==
  \E nf \in 0..MaxReserve : reserve_subd_faces(nf, 3 * nf)
Build_reserve_subd_creases ==
  \E n \in 0..MaxReserve : reserve_subd_creases(n)
Build_clear ==
  \E ps \in BOOLEAN : clear(ps, FALSE)
Build_add_vertex ==
  Len(verts) < MaxVerts /\ add_vertex(BuildPoint)
Build_add_vertex_slow ==
  Len(verts) < MaxVerts /\ add_vertex_slow(BuildPoint)
Build_add_triangle ==
  /\ Len(shader) < MaxTris
  /\ add_triangle(0, 0, 0, 0, FALSE)
Build_add_subd_face ==
  /\ Len(subd_shader) < MaxSubdFaces
  /\ add_subd_face(<<0, 0, 0>>, 1, TRUE)
Build_attributes_add ==
  attributes_add(ATTR_STD_VERTEX_NORMAL)
Build_subd_attributes_add ==
  subd_attributes_add(ATTR_STD_VERTEX_NORMAL)
Build_add_edge_crease ==
  Len(subd_creases_weight) < MaxCreases /\ add_edge_crease(0, 0, F(1))
Build_add_vertex_crease ==
  Len(subd_vert_creases) < MaxCreases /\ add_vertex_crease(0, F(1))

Next ==
  \/ Build_resize_mesh
  \/ Build_reserve_mesh
  \/ Build_resize_subd_faces
  \/ Build_reserve_subd_faces
  \/ Build_reserve_subd_creases
  \/ Build_clear
  \/ Build_add_vertex
  \/ Build_add_vertex_slow
  \/ Build_add_triangle
  \/ Build_add_subd_face
  \/ Build_attributes_add
  \/ Build_subd_attributes_add
  \/ Build_add_edge_crease
  \/ Build_add_vertex_crease

Spec == Init /\ [][Next]_vars

(***************************************************************************)
(* Triangles: any sequence of add_triangle, resize_mesh, reserve_mesh and  *)
(* clear on an empty mesh.                                                 *)
(***************************************************************************)
TriIndices == {<<0, 1, 2>>, <<2, 1, 0>>}

Tri_add_triangle ==
  /\ Len(shader) < MaxTriSeq
  /\ \E v \in TriIndices, sh \in {0, 1}, sm \in BOOLEAN :
       add_triangle(v[1], v[2], v[3], sh, sm)
Tri_resize_mesh ==
  \E nv \in {0, 3}, nt \in 0..MaxTriSeq : resize_mesh(nv, nt)
Tri_reserve_mesh ==
  \E nv \in {0, 3}, nt \in 0..MaxTriSeq : reserve_mesh(nv, nt)
Tri_clear ==
  \E ps \in BOOLEAN : clear(ps, FALSE)

NextTri ==
  \/ Tri_add_triangle
  \/ Tri_resize_mesh
  \/ Tri_reserve_mesh
  \/ Tri_clear

SpecTri == Init /\ [][NextTri]_vars

(***************************************************************************)
(* Subdivision faces: any sequence of add_subd_face on an empty mesh.      *)
(***************************************************************************)
\* The corner arrays handed to add_subd_face: every length up to MaxCorners,
\* in two vertex orders.
CornerArrays ==
  UNION {{[i \in 1..n |-> i - 1], [i \in 1..n |-> n - i]} : n \in 0..MaxCorners}

Subd_add_subd_face ==
  /\ Len(subd_shader) < MaxSubdSeqFaces
  /\ \E corners \in CornerArrays, sm \in BOOLEAN : add_subd_face(corners, 0, sm)

NextSubd == Subd_add_subd_face

SpecSubd == Init /\ [][NextSubd]_vars

(***************************************************************************)
(* Motion blur: Triangle::motion_verts and Triangle::verts_for_step.       *)
(* A time in [0, 1] is the fraction time_num / TimeDen.                    *)
(***************************************************************************)
Min(a, b) == IF a < b THEN a ELSE b

\* Mesh::get_triangle (scene/mesh.h): the three vertex indices of triangle i.
get_triangle(i) == <<triangles[3 * i + 1], triangles[3 * i + 2], triangles[3 * i + 3]>>

\* Mesh::num_triangles (scene/mesh.h)
num_triangles == Len(triangles) \div 3

\* A read of element i (from 0) of a buffer; outside the buffer the read is
\* undefined and gives whatever the memory holds.
ReadArray(buf, i, garbage) == IF i >= 0 /\ i < Len(buf) THEN buf[i + 1] ELSE garbage

\* verts_for_step: const size_t center_step = ((num_steps - 1) / 2)
center_step(num_steps) == (num_steps - 1) \div 2

\* verts_for_step without the step-- that skips the center step.
step_offset_center_not_skipped(num_verts, num_steps, step) == step * num_verts

\* verts_for_step: the offset into vert_steps of a step that is not the center.
step_offset(num_verts, num_steps, step) ==
  (IF step > center_step(num_steps) THEN step - 1 ELSE step) * num_verts

\* verts_for_step: where the three positions of `step` are read from.
verts_for_step_reads(tri, num_verts, num_steps, step) ==
  IF step = center_step(num_steps)
  THEN [j \in 1..3 |-> [step |-> step, from |-> "verts", index |-> tri[j]]]
  ELSE [j \in 1..3 |-> [step |-> step, from |-> "vert_steps",
                         index |-> step_offset(num_verts, num_steps, step) + tri[j]]]

\* Triangle::verts_for_step
verts_for_step(tri, verts_, vert_steps, num_verts, num_steps, step, garbage) ==
  LET reads == verts_for_step_reads(tri, num_verts, num_steps, step)
  IN [j \in 1..3 |->
        IF reads[j].from = "verts"
        THEN ReadArray(verts_, reads[j].index, garbage)
        ELSE ReadArray(vert_steps, reads[j].index, garbage)]

\* motion_verts: step = min((size_t)(time * max_step), max_step - 1)
motion_step(time_num, num_steps) ==
  LET max_step == num_steps - 1
  IN Min((time_num * max_step) \div TimeDen, max_step - 1)

\* The interpolation factor with the roles of the two steps exchanged.
motion_t_num_swapped(time_num, num_steps) ==
  TimeDen - (time_num * (num_steps - 1) - motion_step(time_num, num_steps) * TimeDen)

\* motion_verts: t = time * max_step - step, as the numerator over TimeDen.
motion_t_num(time_num, num_steps) ==
  time_num * (num_steps - 1) - motion_step(time_num, num_steps) * TimeDen

\* motion_verts: (1 - t) * curr + t * next, every coordinate times TimeDen.
motion_interpolate(t_num, curr, next) ==
  Add3(Scale3(F(TimeDen - t_num), curr), Scale3(F(t_num), next))

\* Triangle::motion_verts, called for triangle tri_index of the mesh with the
\* mesh's vertex array, motion-position buffer, vertex count and step count.
motion_verts(tri_index, time_num, garbage) ==
  LET tri == get_triangle(tri_index)
      vert_steps == attributes[ATTR_STD_MOTION_VERTEX_POSITION].data
      num_verts == Len(verts)
      num_steps == motion_steps
      step == motion_step(time_num, num_steps)
      t_num == motion_t_num(time_num, num_steps)
      curr_verts == verts_for_step(tri, verts, vert_steps, num_verts, num_steps, step, garbage)
      next_verts == verts_for_step(tri, verts, vert_steps, num_verts, num_steps, step + 1, garbage)
  IN /\ r_verts' = [j \in 1..3 |-> motion_interpolate(t_num, curr_verts[j], next_verts[j])]
     /\ fetched' = verts_for_step_reads(tri, num_verts, num_steps, step)
                    \o verts_for_step_reads(tri, num_verts, num_steps, step + 1)
     /\ motion_call' = [tri |-> tri, time_num |-> time_num]
     /\ last_op' = "motion_verts"
     /\ UNCHANGED <<verts, tri_vars, subd_vars, crease_edge_vars, crease_vert_vars,
                    num_subd_faces, subdivision_type, attr_vars, used_shaders,
                    geom_vars, bounds, tri_shader, shader_ids, r_has_motion_blur>>

\* The position samples of a mesh of nv vertices and ns motion steps: every
\* stored float3 is different, and the one at place nf (counting the vertex
\* array first, then the motion buffer; 0 for none) has a non-finite x.
MotionSample(place, nf) ==
  IF place = nf THEN <<NonFinite, F(place), F(0)>> ELSE make_float3(place, 2 * place, 1)

\* The triangles of a mesh of nv vertices used here.
MotionTriangles(nv) == {<<0, nv \div 2, nv - 1>>, <<nv - 1, 0, 0>>}

\* A mesh with one triangle over 1..MaxMotionVerts vertices, a
\* motion-position attribute of 2..MaxMotionSteps steps and motion blur on.
InitMotion ==
  /\ \E nv \in 1..MaxMotionVerts, ns \in 2..MaxMotionSteps :
       \E nf \in 0..(nv * ns), tri \in MotionTriangles(nv) :
         /\ verts = [i \in 1..nv |-> MotionSample(i, nf)]
         /\ motion_steps = ns
         /\ attributes = [EmptyAttributeSet EXCEPT ![ATTR_STD_MOTION_VERTEX_POSITION] =
                            Attribute([i \in 1..(nv * (ns - 1)) |-> MotionSample(nv + i, nf)])]
         /\ triangles = tri
  /\ shader = <<0>> /\ smooth = <<FALSE>>
  /\ use_motion_blur = TRUE
  /\ subd_start_corner = <<>> /\ subd_num_corners = <<>>
  /\ subd_shader = <<>> /\ subd_smooth = <<>>
  /\ subd_ptex_offset = <<>> /\ subd_face_corners = <<>>
  /\ subd_creases_edge = <<>> /\ subd_creases_weight = <<>>
  /\ subd_vert_creases = <<>> /\ subd_vert_creases_weight = <<>>
  /\ num_subd_faces = 0
  /\ subdivision_type = SUBDIVISION_NONE
  /\ subd_attributes = EmptyAttributeSet
  /\ used_shaders = <<>>
  /\ transform_negative_scaled = FALSE
  /\ bounds = BoundBox_empty
  /\ tri_shader = <<>> /\ shader_ids = <<>>
  /\ motion_call = <<>> /\ r_verts = <<>> /\ fetched = <<>>
  /\ r_has_motion_blur = FALSE
  /\ last_op = "Mesh"

GarbageFloat3 == {make_float3(77, 77, 77), <<NonFinite, NonFinite, NonFinite>>}

Motion_motion_verts ==
  \E time_num \in 0..TimeDen, garbage \in GarbageFloat3 :
    motion_verts(0, time_num, garbage)

NextMotion == Motion_motion_verts

SpecMotion == InitMotion /\ [][NextMotion]_vars

(***************************************************************************)
(* Mesh::compute_bounds                                                    *)
(***************************************************************************)
RECURSIVE grow_all(_, _, _, _)
\* for (i = 0; i < n; i++) bnds.grow(buf[i]), or grow_safe when safe.
grow_all(box, buf, n, safe) ==
  IF n = 0 THEN box
  ELSE LET before == grow_all(box, buf, n - 1, safe)
           pt == ReadArray(buf, n - 1, <<NonFinite, NonFinite, NonFinite>>)
       IN IF safe THEN BoundBox_grow_safe(before, pt) ELSE BoundBox_grow(before, pt)

\* One pass of compute_bounds over the vertices and, with motion blur on and
\* a motion-position attribute, over the motion steps.
bounds_pass(safe) ==
  LET attr == attributes[ATTR_STD_MOTION_VERTEX_POSITION]
      over_verts == grow_all(BoundBox_empty, verts, Len(verts), safe)
  IN IF use_motion_blur /\ attr.present
     THEN grow_all(over_verts, attr.data, Len(verts) * (motion_steps - 1), safe)
     ELSE over_verts

\* The safe pass leaving the motion steps out.
bounds_safe_pass_verts_only == grow_all(BoundBox_empty, verts, Len(verts), TRUE)

\* compute_bounds: the pass skipping nan or inf coordinates.
bounds_safe_pass == bounds_pass(TRUE)

\* compute_bounds: the box it stores.
compute_bounds_box ==
  LET first == IF Len(verts) > 0 THEN bounds_pass(FALSE) ELSE BoundBox_empty
      bnds == IF Len(verts) > 0 /\ ~BoundBox_valid(first) THEN bounds_safe_pass ELSE first
  IN IF ~BoundBox_valid(bnds) THEN BoundBox_grow(bnds, zero_float3) ELSE bnds

\* Mesh::compute_bounds
compute_bounds ==
  /\ bounds' = compute_bounds_box
  /\ last_op' = "compute_bounds"
  /\ UNCHANGED <<verts, tri_vars, subd_vars, crease_edge_vars, crease_vert_vars,
                 num_subd_faces, subdivision_type, attr_vars, used_shaders,
                 geom_vars, tri_shader, shader_ids, motion_call, r_verts, fetched,
                 r_has_motion_blur>>

\* The positions the bounded meshes are made of: two of them not finite.
BoundsPoints ==
  <<make_float3(-1, 0, 2), make_float3(3, 1, 0),
    <<NonFinite, F(5), F(5)>>, <<F(9), F(-9), NonFinite>>>>

\* A mesh of up to MaxBoundsVerts vertices, with or without a
\* motion-position attribute of the matching size, motion blur on or off.
InitBounds ==
  /\ \E nv \in 0..MaxBoundsVerts, ns \in 2..MaxBoundsSteps :
       \E f \in [1..nv -> 1..Len(BoundsPoints)], k \in 0..Len(BoundsPoints) :
         /\ verts = [i \in 1..nv |-> BoundsPoints[f[i]]]
         /\ motion_steps = ns
         /\ attributes =
              IF k = 0 THEN EmptyAttributeSet
              ELSE [EmptyAttributeSet EXCEPT ![ATTR_STD_MOTION_VERTEX_POSITION] =
                      Attribute([i \in 1..(nv * (ns - 1)) |->
                                   BoundsPoints[((i + k) % Len(BoundsPoints)) + 1]])]
  /\ use_motion_blur \in BOOLEAN
  /\ triangles = <<>> /\ shader = <<>> /\ smooth = <<>>
  /\ subd_start_corner = <<>> /\ subd_num_corners = <<>>
  /\ subd_shader = <<>> /\ subd_smooth = <<>>
  /\ subd_ptex_offset = <<>> /\ subd_face_corners = <<>>
  /\ subd_creases_edge = <<>> /\ subd_creases_weight = <<>>
  /\ subd_vert_creases = <<>> /\ subd_vert_creases_weight = <<>>
  /\ num_subd_faces = 0
  /\ subdivision_type = SUBDIVISION_NONE
  /\ subd_attributes = EmptyAttributeSet
  /\ used_shaders = <<>>
  /\ transform_negative_scaled = FALSE
  /\ bounds = BoundBox_empty
  /\ tri_shader = <<>> /\ shader_ids = <<>>
  /\ motion_call = <<>> /\ r_verts = <<>> /\ fetched = <<>>
  /\ r_has_motion_blur = FALSE
  /\ last_op = "Mesh"

NextBounds == compute_bounds

SpecBounds == InitBounds /\ [][NextBounds]_vars

(***************************************************************************)
(* Normals.  A normalized vector is held as the shortest integer vector of *)
(* its direction; for the axis-parallel face normals of the meshes drawn   *)
(* below that is the unit vector itself, so sums of face normals are exact.*)
(***************************************************************************)
Abs(x) == IF x < 0 THEN 0 - x ELSE x

RECURSIVE Gcd(_, _)
Gcd(a, b) == IF b = 0 THEN Abs(a) ELSE Gcd(b, a % Abs(b))

NonFinite3 == <<NonFinite, NonFinite, NonFinite>>

\* cross (util/math_float3.h)
cross(a, b) ==
  <<FSub(FMul(a[2], b[3]), FMul(a[3], b[2])),
    FSub(FMul(a[3], b[1]), FMul(a[1], b[3])),
    FSub(FMul(a[1], b[2]), FMul(a[2], b[1]))>>

\* normalize: a / len(a); 0 / 0 for the zero vector.
normalize(a) ==
  IF ~isfinite3(a) THEN NonFinite3
  ELSE LET g == Gcd(Gcd(a[1].val, a[2].val), a[3].val)
       IN IF g = 0 THEN NonFinite3
          ELSE make_float3(a[1].val \div g, a[2].val \div g, a[3].val \div g)

\* safe_normalize: the zero vector stays zero.
safe_normalize(a) == IF a = zero_float3 THEN zero_float3 ELSE normalize(a)

\* Triangle::compute_normal
compute_normal(tri, verts_) ==
  LET v0 == verts_[tri[1] + 1]
      v1 == verts_[tri[2] + 1]
      v2 == verts_[tri[3] + 1]
      norm == cross(Sub3(v1, v0), Sub3(v2, v0))
  IN IF norm = zero_float3 THEN make_float3(1, 0, 0) ELSE normalize(norm)

\* SubdFace::normal
SubdFace_normal(face) ==
  LET v0 == verts[subd_face_corners[face.start_corner + 1] + 1]
      v1 == verts[subd_face_corners[face.start_corner + 2] + 1]
      v2 == verts[subd_face_corners[face.start_corner + 3] + 1]
  IN safe_normalize(cross(Sub3(v1, v0), Sub3(v2, v0)))

\* vN[index] += fN
add_at(vN, index, fN) == [vN EXCEPT ![index + 1] = Add3(@, fN)]

RECURSIVE add_triangle_normals(_, _, _)
\* The loop over the first n triangles: each face normal of the positions
\* verts_ is added to the sums of its three vertices.
add_triangle_normals(vN, verts_, n) ==
  IF n = 0 THEN vN
  ELSE LET tri == get_triangle(n - 1)
           fN == compute_normal(tri, verts_)
       IN add_at(add_at(add_at(add_triangle_normals(vN, verts_, n - 1),
                               tri[1], fN), tri[2], fN), tri[3], fN)

RECURSIVE add_corner_normals(_, _, _, _)
\* The loop over the first n corners of a subdivision face.
add_corner_normals(vN, face, fN, n) ==
  IF n = 0 THEN vN
  ELSE add_at(add_corner_normals(vN, face, fN, n - 1),
              subd_face_corners[face.start_corner + n], fN)

RECURSIVE add_subd_face_normals(_, _)
\* The loop over the first n subdivision faces.
add_subd_face_normals(vN, n) ==
  IF n = 0 THEN vN
  ELSE LET face == get_subd_face(n - 1)
       IN add_corner_normals(add_subd_face_normals(vN, n - 1), face,
                             SubdFace_normal(face), face.num_corners)

\* The closing loop: every sum normalized, then negated when flip is set.
normalize_all(vN, flip) ==
  [i \in 1..Len(vN) |-> IF flip THEN Neg3(normalize(vN[i])) ELSE normalize(vN[i])]

\* std::fill_n(vN, verts.size(), zero_float3())
zero_normals == [i \in 1..Len(verts) |-> zero_float3]

\* has_motion_blur without the test of the subdivision type.
has_motion_blur_any_subdivision_type ==
  use_motion_blur /\ (attr_find(attributes, ATTR_STD_MOTION_VERTEX_POSITION)
                      \/ attr_find(subd_attributes, ATTR_STD_MOTION_VERTEX_POSITION))

\* Mesh::has_motion_blur
has_motion_blur ==
  use_motion_blur /\ (attr_find(attributes, ATTR_STD_MOTION_VERTEX_POSITION)
                      \/ (subdivision_type # SUBDIVISION_NONE
                          /\ attr_find(subd_attributes, ATTR_STD_MOTION_VERTEX_POSITION)))

\* The static pass with its closing loop outside the test for an existing
\* attribute: an existing set of normals is normalized and flipped again.
static_vertex_normals_closing_loop_outside(attrs) ==
  IF ~attr_find(attrs, ATTR_STD_VERTEX_NORMAL) /\ num_triangles # 0
  THEN [attrs EXCEPT ![ATTR_STD_VERTEX_NORMAL] =
          Attribute(normalize_all(add_triangle_normals(zero_normals, verts, num_triangles),
                                  transform_negative_scaled))]
  ELSE [attrs EXCEPT ![ATTR_STD_VERTEX_NORMAL] =
          IF @.present THEN Attribute(normalize_all(@.data, transform_negative_scaled))
          ELSE @]

\* add_vertex_normals: static vertex normals.
static_vertex_normals(attrs) ==
  IF ~attr_find(attrs, ATTR_STD_VERTEX_NORMAL) /\ num_triangles # 0
  THEN [attrs EXCEPT ![ATTR_STD_VERTEX_NORMAL] =
          Attribute(normalize_all(add_triangle_normals(zero_normals, verts, num_triangles),
                                  transform_negative_scaled))]
  ELSE attrs

\* The positions of motion step `step` in the motion-position buffer.
motion_step_positions(mP, step) ==
  [i \in 1..Len(verts) |-> mP[step * Len(verts) + i]]

RECURSIVE motion_normal_steps(_, _)
\* The loop over the first n motion steps: the normals of each step, one
\* step after the other in the buffer.
motion_normal_steps(mP, n) ==
  IF n = 0 THEN <<>>
  ELSE motion_normal_steps(mP, n - 1)
       \o normalize_all(add_triangle_normals(zero_normals,
                                             motion_step_positions(mP, n - 1),
                                             num_triangles),
                        transform_negative_scaled)

\* add_vertex_normals: motion vertex normals.
motion_vertex_normals(attrs) ==
  IF /\ has_motion_blur
     /\ attr_find(attrs, ATTR_STD_MOTION_VERTEX_POSITION)
     /\ ~attr_find(attrs, ATTR_STD_MOTION_VERTEX_NORMAL)
     /\ num_triangles # 0
  THEN [attrs EXCEPT ![ATTR_STD_MOTION_VERTEX_NORMAL] =
          Attribute(motion_normal_steps(attrs[ATTR_STD_MOTION_VERTEX_POSITION].data,
                                        motion_steps - 1))]
  ELSE attrs

\* Mesh::get_num_subd_faces (scene/mesh.h)
get_num_subd_faces == num_subd_faces

\* add_vertex_normals: subd vertex normals.
subd_vertex_normals(attrs) ==
  IF ~attr_find(attrs, ATTR_STD_VERTEX_NORMAL) /\ get_num_subd_faces # 0
  THEN [attrs EXCEPT ![ATTR_STD_VERTEX_NORMAL] =
          Attribute(normalize_all(add_subd_face_normals(zero_normals, get_num_subd_faces),
                                  transform_negative_scaled))]
  ELSE attrs

\* Mesh::add_vertex_normals
add_vertex_normals ==
  /\ attributes' = motion_vertex_normals(static_vertex_normals(attributes))
  /\ subd_attributes' = subd_vertex_normals(subd_attributes)
  /\ last_op' = "add_vertex_normals"
  /\ UNCHANGED <<verts, tri_vars, subd_vars, crease_edge_vars, crease_vert_vars,
                 num_subd_faces, subdivision_type, used_shaders, geom_vars, out_vars>>

\* The vertices of the meshes normals are computed for, in the plane z = 0,
\* and their positions in motion step `step`: mirrored in every even step.
NormalsPoint(v) ==
  IF v = 0 THEN make_float3(0, 0, 0)
  ELSE IF v % 2 = 1 THEN make_float3(v, 0, 0) ELSE make_float3(0, v, 0)
NormalsMotionPoint(step, v) ==
  LET p == NormalsPoint(v) IN IF step % 2 = 0 THEN <<p[2], p[1], p[3]>> ELSE p

\* Index triples over nv vertices: both windings; degenerate below 3 vertices.
NormalsTriples(nv) ==
  IF nv = 0 THEN {} ELSE {<<0, nv \div 2, nv - 1>>, <<nv - 1, nv \div 2, 0>>}

\* The triangle index arrays of up to MaxNormalsTris triangles.
NormalsTriangleArrays(nv) ==
  UNION {{<<>>}} \cup
  UNION {{[i \in 1..(3 * n) |-> f[((i - 1) \div 3) + 1][((i - 1) % 3) + 1]] :
            f \in [1..n -> NormalsTriples(nv)]} : n \in 1..MaxNormalsTris}

\* The subdivision faces stored: none, or one polygon over all nv >= 3
\* vertices, in either winding.
NormalsSubdCorners(nv) ==
  IF nv < 3 THEN {<<>>}
  ELSE {<<>>, [i \in 1..nv |-> i - 1], [i \in 1..nv |-> nv - i]}

\* A buffer left by an earlier pass over other positions.
StaleNormals(n) == [i \in 1..n |-> make_float3(0, 1, 0)]

\* A mesh after construction: vertices, triangles and subdivision faces with
\* indices below the vertex count, the face counter at the stored count or
\* never announced, motion blur on or off with or without motion positions,
\* and any subset of the normal attributes already present.
InitNormals ==
  /\ motion_steps = 3
  /\ \E nv \in 0..MaxNormalsVerts :
       /\ verts = [i \in 1..nv |-> NormalsPoint(i - 1)]
       /\ triangles \in NormalsTriangleArrays(nv)
       /\ subd_face_corners \in NormalsSubdCorners(nv)
       /\ \E has_mP, has_N, has_mN \in BOOLEAN :
            attributes =
              [k \in AttrKeys |->
                 IF k = ATTR_STD_MOTION_VERTEX_POSITION /\ has_mP
                 THEN Attribute([i \in 1..(nv * (motion_steps - 1)) |->
                        NormalsMotionPoint((i - 1) \div nv, (i - 1) % nv)])
                 ELSE IF k = ATTR_STD_VERTEX_NORMAL /\ has_N
                 THEN Attribute(StaleNormals(nv))
                 ELSE IF k = ATTR_STD_MOTION_VERTEX_NORMAL /\ has_mN
                 THEN Attribute(StaleNormals(nv * (motion_steps - 1)))
                 ELSE NoAttribute]
       /\ \E has_subd_N \in BOOLEAN :
            subd_attributes =
              [k \in AttrKeys |->
                 IF k = ATTR_STD_VERTEX_NORMAL /\ has_subd_N
                 THEN Attribute(StaleNormals(nv)) ELSE NoAttribute]
  /\ shader = [i \in 1..(Len(triangles) \div 3) |-> 0]
  /\ smooth = [i \in 1..(Len(triangles) \div 3) |-> TRUE]
  /\ subd_start_corner = IF subd_face_corners = <<>> THEN <<>> ELSE <<0>>
  /\ subd_num_corners = IF subd_face_corners = <<>> THEN <<>> ELSE <<Len(subd_face_corners)>>
  /\ subd_shader = IF subd_face_corners = <<>> THEN <<>> ELSE <<0>>
  /\ subd_smooth = IF subd_face_corners = <<>> THEN <<>> ELSE <<TRUE>>
  /\ subd_ptex_offset = IF subd_face_corners = <<>> THEN <<>> ELSE <<0>>
  /\ num_subd_faces \in {0, Len(subd_shader)}
  /\ subdivision_type \in {SUBDIVISION_NONE, SUBDIVISION_CATMULL_CLARK}
  /\ use_motion_blur \in BOOLEAN
  /\ transform_negative_scaled \in BOOLEAN
  /\ subd_creases_edge = <<>> /\ subd_creases_weight = <<>>
  /\ subd_vert_creases = <<>> /\ subd_vert_creases_weight = <<>>
  /\ used_shaders = <<>>
  /\ bounds = BoundBox_empty
  /\ tri_shader = <<>> /\ shader_ids = <<>>
  /\ motion_call = <<>> /\ r_verts = <<>> /\ fetched = <<>>
  /\ r_has_motion_blur = FALSE
  /\ last_op = "Mesh"

NextNormals == add_vertex_normals

SpecNormals == InitNormals /\ [][NextNormals]_vars

(***************************************************************************)
(* Motion blur query: has_motion_blur called on a mesh, its result kept in *)
(* r_has_motion_blur.                                                      *)
(***************************************************************************)
Blur_has_motion_blur ==
  /\ r_has_motion_blur' = has_motion_blur
  /\ last_op' = "has_motion_blur"
  /\ UNCHANGED <<verts, tri_vars, subd_vars, crease_edge_vars, crease_vert_vars,
                 num_subd_faces, subdivision_type, attr_vars, used_shaders, geom_vars,
                 bounds, tri_shader, shader_ids, motion_call, r_verts, fetched>>

\* A motion-position attribute over nv vertices and the mesh's motion steps.
BlurMotionPositions(nv) ==
  Attribute([i \in 1..(nv * (motion_steps - 1)) |-> make_float3(i, 0, 0)])

\* A mesh of up to MaxBlurVerts vertices with every combination of the four
\* inputs: motion blur on or off, each subdivision type, and the
\* motion-position attribute present or absent in either attribute store.
InitBlur ==
  /\ motion_steps = 3
  /\ \E nv \in 0..MaxBlurVerts, in_attributes, in_subd_attributes \in BOOLEAN :
       /\ verts = [i \in 1..nv |-> make_float3(i, 0, 0)]
       /\ attributes =
            IF in_attributes
            THEN [EmptyAttributeSet EXCEPT ![ATTR_STD_MOTION_VERTEX_POSITION] =
                    BlurMotionPositions(nv)]
            ELSE EmptyAttributeSet
       /\ subd_attributes =
            IF in_subd_attributes
            THEN [EmptyAttributeSet EXCEPT ![ATTR_STD_MOTION_VERTEX_POSITION] =
                    BlurMotionPositions(nv)]
            ELSE EmptyAttributeSet
  /\ use_motion_blur \in BOOLEAN
  /\ subdivision_type \in SubdivisionTypes
  /\ triangles = <<>> /\ shader = <<>> /\ smooth = <<>>
  /\ subd_start_corner = <<>> /\ subd_num_corners = <<>>
  /\ subd_shader = <<>> /\ subd_smooth = <<>>
  /\ subd_ptex_offset = <<>> /\ subd_face_corners = <<>>
  /\ subd_creases_edge = <<>> /\ subd_creases_weight = <<>>
  /\ subd_vert_creases = <<>> /\ subd_vert_creases_weight = <<>>
  /\ num_subd_faces = 0
  /\ used_shaders = <<>>
  /\ transform_negative_scaled = FALSE
  /\ bounds = BoundBox_empty
  /\ tri_shader = <<>> /\ shader_ids = <<>>
  /\ motion_call = <<>> /\ r_verts = <<>> /\ fetched = <<>>
  /\ r_has_motion_blur = FALSE
  /\ last_op = "Mesh"

NextBlur == Blur_has_motion_blur

SpecBlur == InitBlur /\ [][NextBlur]_vars

(***************************************************************************)
(* Shader packing.  A 32-bit unsigned value is held as the int with the    *)
(* same bit pattern: the conversion int -> uint is a bijection, so two     *)
(* uints are equal exactly when these ints are, and the uint of a negative *)
(* int is at least 2^31, above every array size.                           *)
(***************************************************************************)
\* uint last_shader = -1
last_shader_initial == 0 - 1

\* last_shader < used_shaders.size(), an unsigned comparison
uint_less_than_size(u, size) == u >= 0 /\ u < size

\* scene->default_surface, and the handle held in used_shaders[i]
default_surface == 0
used_shader_handle(i) == i + 1

\* The shader resolved for a shader index.
resolve_shader(index) ==
  IF uint_less_than_size(index, Len(used_shaders)) THEN used_shaders[index + 1]
  ELSE default_surface

\* scene->shader_manager->get_shader_id(shader, smooth)
get_shader_id(shader_, smooth_) == shader_ids[<<shader_, smooth_>>]

RECURSIVE pack_shaders_loop(_)
\* The locals and the output after the first n iterations of the loop.
pack_shaders_loop(n) ==
  IF n = 0
  THEN [shader_id |-> 0, last_shader |-> last_shader_initial, last_smooth |-> FALSE,
        tri_shader |-> <<>>]
  ELSE LET prev == pack_shaders_loop(n - 1)
           new_shader == shader[n]
           new_smooth == smooth[n]
           cur == IF new_shader # prev.last_shader \/ prev.last_smooth # new_smooth
                  THEN [prev EXCEPT !.last_shader = new_shader,
                                    !.last_smooth = new_smooth,
                                    !.shader_id = get_shader_id(resolve_shader(new_shader),
                                                                new_smooth)]
                  ELSE prev
       IN [cur EXCEPT !.tri_shader = Append(@, cur.shader_id)]

\* Mesh::pack_shaders
pack_shaders ==
  /\ tri_shader' = pack_shaders_loop(num_triangles).tri_shader
  /\ last_op' = "pack_shaders"
  /\ UNCHANGED <<verts, tri_vars, subd_vars, crease_edge_vars, crease_vert_vars,
                 num_subd_faces, subdivision_type, attr_vars, used_shaders, geom_vars,
                 bounds, shader_ids, motion_call, r_verts, fetched, r_has_motion_blur>>

\* The handles a mesh with n used shaders can resolve to.
ShaderHandles(n) == {default_surface} \cup {used_shader_handle(i) : i \in 0..(n - 1)}

\* A mesh of up to MaxPackTris triangles whose shader indices are -1, valid,
\* or one past the used shaders, with any smooth flags, and a resolver that
\* gives every (shader, smooth) pair one of MaxShaderId + 1 ids.
InitPack ==
  /\ \E n \in 0..MaxPackTris :
       /\ triangles = [i \in 1..(3 * n) |-> 0]
       /\ shader \in [1..n -> (0 - 1)..MaxUsedShaders]
       /\ smooth \in [1..n -> BOOLEAN]
       /\ verts = IF n = 0 THEN <<>> ELSE <<zero_float3>>
  /\ \E n \in 0..MaxUsedShaders :
       /\ used_shaders = [i \in 1..n |-> used_shader_handle(i - 1)]
       /\ shader_ids \in [ShaderHandles(n) \X BOOLEAN -> 0..MaxShaderId]
  /\ subd_start_corner = <<>> /\ subd_num_corners = <<>> /\ subd_shader = <<>>
  /\ subd_smooth = <<>> /\ subd_ptex_offset = <<>> /\ subd_face_corners = <<>>
  /\ subd_creases_edge = <<>> /\ subd_creases_weight = <<>>
  /\ subd_vert_creases = <<>> /\ subd_vert_creases_weight = <<>>
  /\ num_subd_faces = 0
  /\ subdivision_type = SUBDIVISION_NONE
  /\ attributes = EmptyAttributeSet /\ subd_attributes = EmptyAttributeSet
  /\ use_motion_blur = FALSE /\ motion_steps = 3 /\ transform_negative_scaled = FALSE
  /\ bounds = BoundBox_empty
  /\ tri_shader = <<>>
  /\ motion_call = <<>> /\ r_verts = <<>> /\ fetched = <<>>
  /\ r_has_motion_blur = FALSE
  /\ last_op = "Mesh"

NextPack == pack_shaders

SpecPack == InitPack /\ [][NextPack]_vars

(***************************************************************************)
(* Properties.                                                             *)
(***************************************************************************)
RECURSIVE SumPtexFaces(_, _)
\* The number of ptex faces of the first k faces with the given corner
\* counts: a quad has one, any other face one per corner.
SumPtexFaces(counts, k) ==
  IF k = 0 THEN 0
  ELSE SumPtexFaces(counts, k - 1) + (IF counts[k] = 4 THEN 1 ELSE counts[k])

\* C1: after any sequence of add_subd_face calls on an empty mesh, the ptex
\* offset stored for face i is the number of ptex faces of the faces before
\* it; a quad followed by a 5-corner face gives the offsets 0, 1.
C1_PtexOffsetIsPrefixSum ==
  /\ Len(subd_ptex_offset) = Len(subd_num_corners)
  /\ \A i \in 1..Len(subd_ptex_offset) :
       subd_ptex_offset[i] = SumPtexFaces(subd_num_corners, i - 1)
  /\ (Len(subd_num_corners) >= 2 /\ subd_num_corners[1] = 4 /\ subd_num_corners[2] = 5)
       => (subd_ptex_offset[1] = 0 /\ subd_ptex_offset[2] = 1)

\* A quad, a 5-corner face and a triangle were appended in this order.
C1_Witness ==
  /\ last_op = "add_subd_face"
  /\ subd_num_corners = <<4, 5, 3>>
  /\ subd_ptex_offset = <<0, 1, 6>>

\* C2: the triangle index, shader and smooth arrays stay in lock-step, and
\* each add_triangle grows them by exactly 3, 1 and 1 entries.
C2_TriangleArraysLockStep ==
  /\ [](Len(triangles) = 3 * Len(shader) /\ Len(shader) = Len(smooth))
  /\ [][last_op' = "add_triangle" =>
          /\ Len(triangles') = Len(triangles) + 3
          /\ Len(shader') = Len(shader) + 1
          /\ Len(smooth') = Len(smooth) + 1]_vars

\* Two triangles were appended after a resize, and the arrays hold 3 of them.
C2_Witness ==
  /\ last_op = "add_triangle"
  /\ Len(triangles) = 9 /\ Len(shader) = 3 /\ Len(smooth) = 3
  /\ shader[1] = 0 /\ shader[3] = 1

\* Every array the mesh owns.
OwnedArraySizes ==
  <<Len(verts), Len(triangles), Len(shader), Len(smooth),
    Len(subd_start_corner), Len(subd_num_corners), Len(subd_shader),
    Len(subd_smooth), Len(subd_ptex_offset), Len(subd_face_corners),
    Len(subd_creases_edge), Len(subd_creases_weight),
    Len(subd_vert_creases), Len(subd_vert_creases_weight)>>

\* C4: after clear() the mesh is empty: every owned array has size 0, both
\* attribute stores are cleared and the subdivision face counter is 0.
C4_ClearEmptiesMesh ==
  last_op = "clear" =>
    /\ \A i \in 1..Len(OwnedArraySizes) : OwnedArraySizes[i] = 0
    /\ attributes = EmptyAttributeSet
    /\ subd_attributes = EmptyAttributeSet
    /\ num_subd_faces = 0

ReserveOps == {"reserve_mesh", "reserve_subd_faces", "reserve_subd_creases"}

TemporalSample(s, v) ==
  IF s = (motion_steps - 1) \div 2
  THEN verts[v + 1]
  ELSE attributes[ATTR_STD_MOTION_VERTEX_POSITION].data[
         (IF s < (motion_steps - 1) \div 2 THEN s ELSE s - 1) * Len(verts) + v + 1]

\* C3 as stated: time = 0 returns the positions of sample 0 and time = 1
\* those of the last sample (coordinates are held times TimeDen).
C3_EndpointsExact ==
  (last_op = "motion_verts" /\ motion_call.time_num \in {0, TimeDen}) =>
    LET s == IF motion_call.time_num = 0 THEN 0 ELSE motion_steps - 1
    IN \A j \in 1..3 :
         r_verts[j] = Scale3(F(TimeDen), TemporalSample(s, motion_call.tri[j]))

\* C3 amended: at time = 0 (time = 1) every returned coordinate is the one of
\* sample 0 (of the last sample) when the same coordinate of the neighbouring
\* sample 1 (max_step - 1), which enters with weight 0, is finite, and is
\* non-finite when that coordinate is not.
C3_EndpointsExactWhenNeighbourFinite ==
  (last_op = "motion_verts" /\ motion_call.time_num \in {0, TimeDen}) =>
    LET s == IF motion_call.time_num = 0 THEN 0 ELSE motion_steps - 1
        o == IF motion_call.time_num = 0 THEN 1 ELSE motion_steps - 2
    IN \A j \in 1..3, c \in 1..3 :
         r_verts[j][c] =
           IF isfinite_safe(TemporalSample(o, motion_call.tri[j])[c])
           THEN FMul(F(TimeDen), TemporalSample(s, motion_call.tri[j])[c])
           ELSE NonFinite

\* motion_verts ran with time = 1 over 5 steps (the last sample lies past the
\* center in the motion buffer) on finite data and returned the last sample.
C3_Witness ==
  /\ last_op = "motion_verts"
  /\ motion_call.time_num = TimeDen
  /\ motion_steps = 5
  /\ Len(verts) = 3
  /\ \A j \in 1..3 : isfinite3(r_verts[j])
  /\ r_verts[1] = Scale3(F(TimeDen), attributes[ATTR_STD_MOTION_VERTEX_POSITION].data[10])

\* C10: the two samples fetched are neighbouring steps s, s + 1 with
\* 0 <= s <= num_steps - 2; the center step is read from the vertex array,
\* any other step s from the motion buffer at
\* (s < center ? s : s - 1) * num_verts + vertex index, below
\* num_verts * (num_steps - 1).
C10_FetchesInRange ==
  last_op = "motion_verts" =>
    LET s == fetched[1].step
        center == (motion_steps - 1) \div 2
    IN /\ Len(fetched) = 6
       /\ 0 <= s /\ s <= motion_steps - 2
       /\ \A k \in 1..6 :
            LET f == fetched[k]
                v == motion_call.tri[((k - 1) % 3) + 1]
            IN /\ f.step = (IF k <= 3 THEN s ELSE s + 1)
               /\ (f.step = center) => (f.from = "verts" /\ f.index = v)
               /\ (f.step # center) =>
                    /\ f.from = "vert_steps"
                    /\ f.index = (IF f.step < center THEN f.step ELSE f.step - 1)
                                    * Len(verts) + v
                    /\ f.index < Len(verts) * (motion_steps - 1)
                    /\ f.index < Len(attributes[ATTR_STD_MOTION_VERTEX_POSITION].data)

\* motion_verts fetched the last two of 4 steps, both past the center, so
\* both were read from the motion buffer, the last one at its very end.
C10_Witness ==
  /\ last_op = "motion_verts"
  /\ motion_steps = 4
  /\ Len(verts) = 3
  /\ fetched[1].step = 2 /\ fetched[4].step = 3
  /\ fetched[1].from = "vert_steps" /\ fetched[4].from = "vert_steps"
  /\ \E k \in 4..6 : fetched[k].index = Len(verts) * (motion_steps - 1) - 1

\* The position samples compute_bounds is to cover.
BoundedSamples ==
  {verts[i] : i \in 1..Len(verts)}
  \cup (IF use_motion_blur /\ attributes[ATTR_STD_MOTION_VERTEX_POSITION].present
        THEN {attributes[ATTR_STD_MOTION_VERTEX_POSITION].data[i] :
                i \in 1..(Len(verts) * (motion_steps - 1))}
        ELSE {})

FiniteSamples == {p \in BoundedSamples : p[1].fin /\ p[2].fin /\ p[3].fin}

\* C6: after compute_bounds the stored box is valid and is exactly the box
\* of the finite position samples; without any it holds exactly the origin.
C6_BoundsOfFiniteSamples ==
  last_op = "compute_bounds" =>
    /\ ~bounds.empty
    /\ \A c \in 1..3 :
         /\ bounds.min[c].fin /\ bounds.max[c].fin
         /\ bounds.min[c].val <= bounds.max[c].val
         /\ IF FiniteSamples = {}
            THEN bounds.min[c].val = 0 /\ bounds.max[c].val = 0
            ELSE /\ \E p \in FiniteSamples : p[c].val = bounds.min[c].val
                 /\ \E p \in FiniteSamples : p[c].val = bounds.max[c].val
                 /\ \A p \in FiniteSamples :
                      bounds.min[c].val <= p[c].val /\ p[c].val <= bounds.max[c].val

\* compute_bounds ran on a mesh with a non-finite vertex and a finite one and
\* with motion steps that widen the box beyond the vertices.
C6_Witness ==
  /\ last_op = "compute_bounds"
  /\ \E i \in 1..Len(verts) : ~isfinite3(verts[i])
  /\ \E i \in 1..Len(verts) : isfinite3(verts[i])
  /\ use_motion_blur /\ attributes[ATTR_STD_MOTION_VERTEX_POSITION].present
  /\ \E c \in 1..3 : \A i \in 1..Len(verts) :
       isfinite3(verts[i]) => verts[i][c].val < bounds.max[c].val

\* C7: add_vertex_normals is idempotent: a call that follows a call changes
\* nothing, it creates no attribute and alters no normal.
C7_AddVertexNormalsIdempotent ==
  [][(last_op = "add_vertex_normals" /\ last_op' = "add_vertex_normals") =>
       /\ attributes' = attributes
       /\ subd_attributes' = subd_attributes
       /\ verts' = verts /\ num_subd_faces' = num_subd_faces]_vars

\* add_vertex_normals created all three sets of normals on a mirrored mesh
\* with motion blur: the static normals point down, the motion normals of
\* the mirrored step point up.
C7_Witness ==
  /\ last_op = "add_vertex_normals"
  /\ transform_negative_scaled /\ use_motion_blur
  /\ Len(verts) = 3 /\ num_triangles = 2 /\ num_subd_faces = 1
  /\ attributes[ATTR_STD_VERTEX_NORMAL].present
  /\ attributes[ATTR_STD_VERTEX_NORMAL].data[1] = make_float3(0, 0, -1)
  /\ attributes[ATTR_STD_MOTION_VERTEX_NORMAL].present
  /\ attributes[ATTR_STD_MOTION_VERTEX_NORMAL].data[1] = make_float3(0, 0, 1)
  /\ subd_attributes[ATTR_STD_VERTEX_NORMAL].present
  /\ subd_attributes[ATTR_STD_VERTEX_NORMAL].data[1] = make_float3(0, 0, -1)

\* The id triangle i gets when it is resolved on its own.
ResolvedIndependently(i) == get_shader_id(resolve_shader(shader[i]), smooth[i])

\* C8: after pack_shaders every triangle holds the id that resolving it
\* independently gives, whatever the shader and smooth arrays hold.
C8_PackedIdsMatchIndependentResolve ==
  last_op = "pack_shaders" =>
    /\ Len(tri_shader) = num_triangles
    /\ \A i \in 1..num_triangles : tri_shader[i] = ResolvedIndependently(i)

\* C9: the corner ranges of the stored faces are contiguous in append order
\* and end at the size of the corner array.
C9_CornerRangesContiguous ==
  /\ Len(subd_start_corner) = Len(subd_num_corners)
  /\ Len(subd_start_corner) > 0 => subd_start_corner[1] = 0
  /\ \A i \in 2..Len(subd_start_corner) :
       subd_start_corner[i] = subd_start_corner[i - 1] + subd_num_corners[i - 1]
  /\ Len(subd_start_corner) > 0 =>
       subd_start_corner[Len(subd_start_corner)]
         + subd_num_corners[Len(subd_num_corners)] = Len(subd_face_corners)

\* Three faces of 3, 4 and 5 corners were appended.
C9_Witness ==
  /\ last_op = "add_subd_face"
  /\ subd_num_corners = <<3, 4, 5>>
  /\ subd_start_corner = <<0, 3, 7>>
  /\ Len(subd_face_corners) = 12

\* C11: has_motion_blur returns true exactly when motion blur is enabled and
\* a motion-position attribute exists in the triangle-domain store or, with
\* a subdivision type other than none, in the subdivision-domain store.
C11_HasMotionBlurIff ==
  last_op = "has_motion_blur" =>
    (r_has_motion_blur <=>
       /\ use_motion_blur
       /\ \/ attributes[ATTR_STD_MOTION_VERTEX_POSITION].present
          \/ /\ subdivision_type # SUBDIVISION_NONE
             /\ subd_attributes[ATTR_STD_MOTION_VERTEX_POSITION].present)

\* has_motion_blur returned true for a subdivided mesh whose motion positions
\* exist in the subdivision-domain store only.
C11_Witness ==
  /\ last_op = "has_motion_blur"
  /\ r_has_motion_blur
  /\ ~attributes[ATTR_STD_MOTION_VERTEX_POSITION].present
  /\ subd_attributes[ATTR_STD_MOTION_VERTEX_POSITION].present
  /\ subdivision_type = SUBDIVISION_CATMULL_CLARK
  /\ Len(verts) > 0

\* C12: in every state reached by reserve_subd_faces, resize_subd_faces,
\* add_subd_face and clear, the face count add_vertex_normals uses
\* (get_num_subd_faces) is the number of faces stored in the per-face arrays.
C12_FaceCountIsStoredFaces ==
  get_num_subd_faces = Len(subd_shader)

====
